---- MODULE Spec2Model ----
(***************************************************************************)
(* Model of extract_timelines.py: the incremental reconciliation of        *)
(* timeline rows extracted from a comment feed into a TSV snapshot.        *)
(*                                                                         *)
(* Text is modelled as TLA+ strings handled character by character (Len,   *)
(* SubSeq, \o), so that strip, split, join, upper and the date format      *)
(* check are computed as the Python code computes them.  A file is a       *)
(* record [exists, lines]; each line is stored without its terminating     *)
(* newline.  Field values never contain a newline in this model.           *)
(***************************************************************************)
EXTENDS Integers, Sequences, FiniteSets, TLC

VARIABLES
    pc,                     \* position of the run: idle, loop, ..., done, crashed
    runs,                   \* number of runs started so far
    items,                  \* number of feed items given to the runs so far
    comments,               \* the feed of the current (or last completed) run
    idx,                    \* 1-based index of the next feed item (enumerate(comments, start=1))
    output_tsv,             \* args.output_tsv on disk
    skipped_file,           \* args.output_tsv + ".skipped" on disk
    inprogress_file,        \* args.output_tsv + ".inprogress" on disk
    existing_data,          \* dict comment_id -> TimelineRow (insertion ordered)
    skipped_cache,          \* dict comment_id -> body hash
    written_to_inprogress,  \* set of comment ids already in the in-progress file
    final_data,             \* dict rebuilt from the in-progress file at finalization
    out_queue,              \* lines still to be written to the output at finalization
    decisions,              \* history: one entry per feed item handled in this run
    prior_data,             \* history: existing_data as loaded at the start of the run
    prior_skipped,          \* history: skipped_cache as loaded at the start of the run
    prior_output,           \* history: output_tsv as it was at the start of the run
    rerun,                  \* history: this run has the feed of the run completed just before it
    ever_known,             \* history: <<id, date field>> pairs known in some written snapshot
    fn_in,                  \* inputs of the pure-function specifications
    fn_out                  \* result of the pure-function specifications

vars == <<pc, runs, items, comments, idx, output_tsv, skipped_file, inprogress_file,
          existing_data, skipped_cache, written_to_inprogress, final_data,
          out_queue, decisions, prior_data, prior_skipped, prior_output,
          rerun, ever_known, fn_in, fn_out>>

(***************************************************************************)
(* Bounds of the model.                                                    *)
(***************************************************************************)
MaxRuns == 3
MaxFeed == 2
MaxItems == 3

(***************************************************************************)
(* Python string operations.                                               *)
(***************************************************************************)
TAB == "\t"

Whitespace == {" ", "\t", "\n", "\r"}

CharAt(s, i) == SubSeq(s, i, i)

LowerLetters == "abcdefghijklmnopqrstuvwxyz"
UpperLetters == "ABCDEFGHIJKLMNOPQRSTUVWXYZ"

\* Characters in ascending code point order (the ones identifiers are made of).
CodePointOrder == "0123456789ABCDEFGHIJKLMNOPQRSTUVWXYZ_abcdefghijklmnopqrstuvwxyz"

IndexIn(c, alphabet) ==
    LET at == {i \in 1..Len(alphabet) : CharAt(alphabet, i) = c}
    IN IF at = {} THEN 0 ELSE CHOOSE i \in at : \A j \in at : i <= j

CharsOf(alphabet) == {CharAt(alphabet, i) : i \in 1..Len(alphabet)}

\* tables over the alphabets above
ToUpper == [c \in CharsOf(LowerLetters) |-> CharAt(UpperLetters, IndexIn(c, LowerLetters))]

ToLower == [c \in CharsOf(UpperLetters) |-> CharAt(LowerLetters, IndexIn(c, UpperLetters))]

CodePointRank == [c \in CharsOf(CodePointOrder) |-> IndexIn(c, CodePointOrder)]

IsLetter(c) == c \in DOMAIN ToUpper \/ c \in DOMAIN ToLower

UpperChar(c) == IF c \in DOMAIN ToUpper THEN ToUpper[c] ELSE c

LowerChar(c) == IF c \in DOMAIN ToLower THEN ToLower[c] ELSE c

\* str.upper()
RECURSIVE Upper(_)
Upper(s) == IF s = "" THEN "" ELSE UpperChar(CharAt(s, 1)) \o Upper(Tail(s))

\* str.title(): a letter that follows a letter is lowered, any other letter raised.
RECURSIVE TitleFrom(_, _)
TitleFrom(s, afterLetter) ==
    IF s = "" THEN ""
    ELSE LET c == CharAt(s, 1) IN
         (IF afterLetter THEN LowerChar(c) ELSE UpperChar(c)) \o TitleFrom(Tail(s), IsLetter(c))

Title(s) == TitleFrom(s, FALSE)

\* str.lstrip() / str.rstrip() / str.strip() with no argument
RECURSIVE LStrip(_)
LStrip(s) == IF s # "" /\ CharAt(s, 1) \in Whitespace THEN LStrip(Tail(s)) ELSE s

RECURSIVE RStrip(_)
RStrip(s) ==
    IF s # "" /\ CharAt(s, Len(s)) \in Whitespace THEN RStrip(SubSeq(s, 1, Len(s) - 1)) ELSE s

Strip(s) == LStrip(RStrip(s))

\* sub in s
Contains(s, sub) ==
    \E i \in 1..(Len(s) - Len(sub) + 1) : SubSeq(s, i, i + Len(sub) - 1) = sub

\* sep.join(parts)
RECURSIVE Join(_, _)
Join(parts, sep) ==
    IF Len(parts) = 0 THEN ""
    ELSE IF Len(parts) = 1 THEN parts[1]
    ELSE parts[1] \o sep \o Join(Tail(parts), sep)

\* s.split(sep) for a one-character sep: always at least one part, cut at
\* every occurrence of sep
Split(s, sep) ==
    LET cuts == {i \in 1..Len(s) : CharAt(s, i) = sep}
        n == Cardinality(cuts)
        \* the k-th cut, with 0 before the text and Len(s) + 1 after it
        Cut(k) == IF k = 0 THEN 0
                  ELSE IF k = n + 1 THEN Len(s) + 1
                  ELSE CHOOSE i \in cuts : Cardinality({j \in cuts : j < i}) = k - 1
    IN [k \in 1..(n + 1) |-> SubSeq(s, Cut(k - 1) + 1, Cut(k) - 1)]

\* a < b for Python strings (by code point, a proper prefix first)
RECURSIVE StrLess(_, _)
StrLess(a, b) ==
    IF b = "" THEN FALSE
    ELSE IF a = "" THEN TRUE
    ELSE IF CharAt(a, 1) = CharAt(b, 1) THEN StrLess(Tail(a), Tail(b))
    ELSE CodePointRank[CharAt(a, 1)] < CodePointRank[CharAt(b, 1)]

\* sorted(keys)
RECURSIVE Sorted(_)
Sorted(S) ==
    IF S = {} THEN <<>>
    ELSE LET m == CHOOSE k \in S : \A o \in S \ {k} : StrLess(k, o)
         IN <<m>> \o Sorted(S \ {m})

(***************************************************************************)
(* Python dict with insertion order: a sequence of [key, val] entries.     *)
(***************************************************************************)
Keys(d) == {d[i].key : i \in 1..Len(d)}

Has(d, k) == k \in Keys(d)

Get(d, k) == d[CHOOSE i \in 1..Len(d) : d[i].key = k].val

\* d[k] = v : an existing key keeps its place, a new key goes last
Put(d, k, v) ==
    IF Has(d, k)
    THEN [i \in 1..Len(d) |-> IF d[i].key = k THEN [key |-> k, val |-> v] ELSE d[i]]
    ELSE Append(d, [key |-> k, val |-> v])

\* del d[k]
Del(d, k) == LET Keep(e) == e.key # k IN SelectSeq(d, Keep)

(***************************************************************************)
(* Record model: TimelineRow and the normalisers.                          *)
(***************************************************************************)
NA == "N/A"

TSV_HEADER ==
    Join(<<"Comment ID", "Eligibility", "Application Method", "Application Date",
           "Biometric Date", "Approval Date", "Ceremony Date", "Body Hash">>, TAB)

DateFields == {"application_date", "biometric_date", "approval_date", "ceremony_date"}

\* TimelineRow.__init__
TimelineRow(comment_id, eligibility, application_method, application_date, biometric_date, approval_date, ceremony_date, body_hash) ==
    [comment_id |-> comment_id, eligibility |-> eligibility,
     application_method |-> application_method, application_date |-> application_date,
     biometric_date |-> biometric_date, approval_date |-> approval_date,
     ceremony_date |-> ceremony_date, body_hash |-> body_hash]

\* Python None where a row is expected
NoneRow == [none |-> TRUE]

\* TimelineRow.to_tsv_row
to_tsv_row(r) ==
    Join(<<r.comment_id, r.eligibility, r.application_method, r.application_date,
           r.biometric_date, r.approval_date, r.ceremony_date, r.body_hash>>, TAB)

\* TimelineRow.from_tsv_row; the line comes without its newline (rstrip("\n"))
from_tsv_row(line) ==
    LET parts == Split(line, TAB) IN
    IF Len(parts) < 7 THEN NoneRow
    ELSE TimelineRow(parts[1], parts[2], parts[3], parts[4], parts[5], parts[6], parts[7],
                     IF Len(parts) > 7 THEN parts[8] ELSE "")

\* the test "x and x != 'N/A' and x.strip()" of _merge_date
IsRealDate(d) == d # "" /\ d # NA /\ Strip(d) # ""

\* TimelineRow._merge_date with the first branch taken for the new date
merge_date_prefer_new(old_date, new_date) ==
    IF IsRealDate(new_date) THEN new_date
    ELSE IF IsRealDate(old_date) THEN old_date
    ELSE NA

\* _merge_date that answers N/A when both dates are real and differ
merge_date_conflict_unknown(old_date, new_date) ==
    IF IsRealDate(old_date) /\ IsRealDate(new_date) /\ old_date # new_date THEN NA
    ELSE IF IsRealDate(old_date) THEN old_date
    ELSE IF IsRealDate(new_date) THEN new_date
    ELSE NA

\* TimelineRow._merge_date
merge_date(old_date, new_date) ==
    IF IsRealDate(old_date) THEN old_date
    ELSE IF IsRealDate(new_date) THEN new_date
    ELSE NA

\* merge_with that keeps the stored categorical fields and hash
merge_with_keep_old(self, other) ==
    TimelineRow(self.comment_id,
                self.eligibility,
                self.application_method,
                merge_date(self.application_date, other.application_date),
                merge_date(self.biometric_date, other.biometric_date),
                merge_date(self.approval_date, other.approval_date),
                merge_date(self.ceremony_date, other.ceremony_date),
                self.body_hash)

\* TimelineRow.merge_with (self is the stored row, other the new one)
merge_with(self, other) ==
    TimelineRow(self.comment_id,
                other.eligibility,
                other.application_method,
                merge_date(self.application_date, other.application_date),
                merge_date(self.biometric_date, other.biometric_date),
                merge_date(self.approval_date, other.approval_date),
                merge_date(self.ceremony_date, other.ceremony_date),
                other.body_hash)

(***************************************************************************)
(* Comment bodies.  A body is [isstr, text]; isstr is FALSE for a JSON     *)
(* value that is not a string (null).                                      *)
(***************************************************************************)
Body(text) == [isstr |-> TRUE, text |-> text]

NullBody == [isstr |-> FALSE, text |-> ""]

\* compute_body_hash: sha256(body)[:16], tabulated for the bodies of the model
compute_body_hash(body) ==
    CASE body.text = "A" -> "559aead08264d579"
      [] body.text = "B" -> "df7e70e5021544f4"
      [] body.text = "C" -> "6b23c0d5f35d1b11"
      [] body.text = "EUSS approved" -> "5f857fdb9380735e"
      [] body.text = "settled status, then MN1" -> "e170c8514f93bf1c"
      [] OTHER -> "e3b0c44298fc1c14"

(***************************************************************************)
(* JSON values of a gateway response.                                      *)
(***************************************************************************)
JStr(s) == [t |-> "str", s |-> s]

JNull == [t |-> "null"]

JTrue == [t |-> "bool", b |-> TRUE]

JFalse == [t |-> "bool", b |-> FALSE]

\* bool(v)
Truthy(v) ==
    CASE v.t = "str" -> v.s # ""
      [] v.t = "bool" -> v.b
      [] OTHER -> FALSE

\* str(v)
PyStr(v) ==
    CASE v.t = "str" -> v.s
      [] v.t = "bool" -> IF v.b THEN "True" ELSE "False"
      [] OTHER -> "None"

\* parsed.get(key, default)
GetOr(obj, key, default) == IF key \in DOMAIN obj THEN obj[key] ELSE default

\* sanity_normalise_eligibility without the fallback: a label with no known
\* keyword is kept as the gateway wrote it
sanity_normalise_eligibility_raw_default(value) ==
    LET v == Strip(IF Truthy(value) THEN PyStr(value) ELSE "")
        upper == Upper(v)
        base ==
            IF Contains(upper, "EUSS") \/ Contains(upper, "SETTLED STATUS")
               \/ Contains(upper, "EU SETTLED") THEN "EUSS"
            ELSE IF Contains(upper, "MN1") THEN "MN1"
            ELSE IF Contains(upper, "FORM T") THEN "Form T"
            ELSE IF Contains(upper, "ARMED") THEN "Armed Forces"
            ELSE IF Contains(upper, "BNO") THEN "BNO"
            ELSE v
        suffix ==
            IF Contains(upper, "MARRIAGE") \/ Contains(upper, "MARRIED TO BRITISH")
               \/ Contains(upper, "BRITISH SPOUSE") \/ Contains(upper, "SPOUSE OF A BRITISH")
               \/ Contains(upper, "(+ MARRIAGE)") THEN " (+ Marriage)"
            ELSE ""
    IN base \o suffix

\* sanity_normalise_eligibility that does not know its own label "EUSS"
sanity_normalise_eligibility_no_euss_keyword(value) ==
    LET v == Strip(IF Truthy(value) THEN PyStr(value) ELSE "")
        upper == Upper(v)
        base ==
            IF Contains(upper, "SETTLED STATUS") \/ Contains(upper, "EU SETTLED") THEN "EUSS"
            ELSE IF Contains(upper, "MN1") THEN "MN1"
            ELSE IF Contains(upper, "FORM T") THEN "Form T"
            ELSE IF Contains(upper, "ARMED") THEN "Armed Forces"
            ELSE IF Contains(upper, "BNO") THEN "BNO"
            ELSE "ILR"
        suffix ==
            IF Contains(upper, "MARRIAGE") \/ Contains(upper, "MARRIED TO BRITISH")
               \/ Contains(upper, "BRITISH SPOUSE") \/ Contains(upper, "SPOUSE OF A BRITISH")
               \/ Contains(upper, "(+ MARRIAGE)") THEN " (+ Marriage)"
            ELSE ""
    IN base \o suffix

\* sanity_normalise_eligibility; value is a JSON string or null
sanity_normalise_eligibility(value) ==
    LET v == Strip(IF Truthy(value) THEN PyStr(value) ELSE "")
        upper == Upper(v)
        base ==
            IF Contains(upper, "EUSS") \/ Contains(upper, "SETTLED STATUS")
               \/ Contains(upper, "EU SETTLED") THEN "EUSS"
            ELSE IF Contains(upper, "MN1") THEN "MN1"
            ELSE IF Contains(upper, "FORM T") THEN "Form T"
            ELSE IF Contains(upper, "ARMED") THEN "Armed Forces"
            ELSE IF Contains(upper, "BNO") THEN "BNO"
            ELSE "ILR"
        suffix ==
            IF Contains(upper, "MARRIAGE") \/ Contains(upper, "MARRIED TO BRITISH")
               \/ Contains(upper, "BRITISH SPOUSE") \/ Contains(upper, "SPOUSE OF A BRITISH")
               \/ Contains(upper, "(+ MARRIAGE)") THEN " (+ Marriage)"
            ELSE ""
    IN base \o suffix

\* sanity_norm_date
sanity_norm_date(x) ==
    LET val == Strip(IF Truthy(x) THEN PyStr(x) ELSE "") IN
    IF val = NA THEN val
    ELSE IF Len(val) = 10 /\ CharAt(val, 5) = "-" /\ CharAt(val, 8) = "-" THEN val
    ELSE NA

(***************************************************************************)
(* The gateway and process_comment.  A response is                         *)
(*   [kind |-> "error"]      the call or json.loads raised                 *)
(*   [kind |-> "nonobject"]  valid JSON that is no object (a list)         *)
(*   [kind |-> "object", obj |-> f]  a JSON object, f from keys to values  *)
(* The result is [kind |-> "none"], [kind |-> "row", row |-> r] or         *)
(* [kind |-> "raise"] (an exception leaves process_comment).               *)
(***************************************************************************)
ResultNone == [kind |-> "none"]

ResultRaise == [kind |-> "raise"]

ResultRow(r) == [kind |-> "row", row |-> r]

\* process_comment without the fallback of lines 300-301
process_comment_raw_method(comment_id, body, response) ==
    IF response.kind = "error" THEN ResultNone
    ELSE IF response.kind = "nonobject" THEN ResultRaise
    ELSE LET parsed == response.obj IN
         IF GetOr(parsed, "skip", JNull) = JTrue THEN ResultNone
         ELSE LET eligibility_out ==
                      sanity_normalise_eligibility(GetOr(parsed, "eligibility", JStr("ILR")))
                  application_method ==
                      Title(Strip(PyStr(GetOr(parsed, "application_method", JStr("Online")))))
                  body_hash == compute_body_hash(body)
              IN ResultRow(TimelineRow(comment_id, eligibility_out, application_method,
                     sanity_norm_date(GetOr(parsed, "application_date", JNull)),
                     sanity_norm_date(GetOr(parsed, "biometric_date", JNull)),
                     sanity_norm_date(GetOr(parsed, "approval_date", JNull)),
                     sanity_norm_date(GetOr(parsed, "ceremony_date", JNull)),
                     body_hash))

process_comment(comment_id, body, response) ==
    IF response.kind = "error" THEN ResultNone
    ELSE IF response.kind = "nonobject" THEN ResultRaise
    ELSE LET parsed == response.obj IN
         IF GetOr(parsed, "skip", JNull) = JTrue THEN ResultNone
         ELSE LET eligibility_out ==
                      sanity_normalise_eligibility(GetOr(parsed, "eligibility", JStr("ILR")))
                  method_in == Title(Strip(PyStr(GetOr(parsed, "application_method", JStr("Online")))))
                  application_method ==
                      IF method_in \notin {"Online", "Paper", "Other"} THEN "Online" ELSE method_in
                  body_hash == compute_body_hash(body)
              IN ResultRow(TimelineRow(comment_id, eligibility_out, application_method,
                     sanity_norm_date(GetOr(parsed, "application_date", JNull)),
                     sanity_norm_date(GetOr(parsed, "biometric_date", JNull)),
                     sanity_norm_date(GetOr(parsed, "approval_date", JNull)),
                     sanity_norm_date(GetOr(parsed, "ceremony_date", JNull)),
                     body_hash))

(***************************************************************************)
(* Files.                                                                  *)
(***************************************************************************)
NoFile == [exists |-> FALSE, lines |-> <<>>]

File(lines) == [exists |-> TRUE, lines |-> lines]

\* the loop of read_existing_data and of the finalization: rows of lines into a dict
RECURSIVE RowsInto(_, _)
RowsInto(data, lines) ==
    IF Len(lines) = 0 THEN data
    ELSE LET row == from_tsv_row(lines[1]) IN
         RowsInto(IF row # NoneRow /\ row.comment_id # ""
                  THEN Put(data, row.comment_id, row) ELSE data,
                  Tail(lines))

\* "first = True ... continue  # skip header": the lines after the first one
AfterHeader(lines) == SubSeq(lines, 2, Len(lines))

\* read_existing_data
read_existing_data(file) ==
    IF ~file.exists THEN <<>> ELSE RowsInto(<<>>, AfterHeader(file.lines))

(***************************************************************************)
(* Inputs of a run: the feed and the gateway's responses.                  *)
(***************************************************************************)
Ids == {"c1", "c2"}

Bodies == {Body("A"), Body("B"), Body("[deleted]"), Body(" ")}

Items == [comment_id : Ids, body : Bodies]

Feeds == UNION {[1..n -> Items] : n \in 0..MaxFeed}

RespError == [kind |-> "error"]

RespNonObject == [kind |-> "nonobject"]

RespObject(obj) == [kind |-> "object", obj |-> obj]

\* skip=true with "N/A" in every date field, as the prompt asks for
RespSkip ==
    RespObject([k \in {"skip"} \cup DateFields |-> IF k = "skip" THEN JTrue ELSE JStr(NA)])

Candidate(eligibility, method, app, bio, approval, ceremony) ==
    RespObject([k \in {"eligibility", "application_method", "skip"} \cup DateFields |->
        CASE k = "eligibility" -> JStr(eligibility)
          [] k = "application_method" -> JStr(method)
          [] k = "application_date" -> JStr(app)
          [] k = "biometric_date" -> JStr(bio)
          [] k = "approval_date" -> JStr(approval)
          [] k = "ceremony_date" -> JStr(ceremony)
          [] OTHER -> JFalse])

\* a first extraction, a noisy re-extraction that lost the application date,
\* and a response that does not keep to the prompt's format
Candidates ==
    { Candidate("ILR", "Online", "2025-02-01", NA, NA, NA),
      Candidate("ILR (+ Marriage)", "paper", NA, "2025-02-10", NA, NA),
      RespObject([k \in {"eligibility", "application_date", "biometric_date",
                         "approval_date", "ceremony_date"} |->
        CASE k = "eligibility" -> JStr("EU settled status, married to British")
          [] k = "application_date" -> JStr("2025-03-05")
          [] k = "biometric_date" -> JStr("TBC")
          [] k = "approval_date" -> JStr("2025-13-45")
          [] OTHER -> JStr("2025-\t4-01")]) }

Responses == {RespError, RespNonObject, RespSkip} \cup Candidates

(***************************************************************************)
(* main(): one run over the feed.                                          *)
(***************************************************************************)
\* c.get("comment_id") or ... or f"c{idx:06d}"
CommentId(c, i) ==
    IF c.comment_id # "" THEN c.comment_id ELSE "c00000" \o CharAt("123456789", i)

\* the skipped cache as main() loads it from the .skipped file
RECURSIVE SkippedInto(_, _)
SkippedInto(cache, lines) ==
    IF Len(lines) = 0 THEN cache
    ELSE LET parts == Split(Strip(lines[1]), TAB) IN
         SkippedInto(IF Len(parts) = 2 THEN Put(cache, parts[1], parts[2]) ELSE cache,
                     Tail(lines))

load_skipped_cache(file) == IF ~file.exists THEN <<>> ELSE SkippedInto(<<>>, file.lines)

\* inprogress_file.write(row.to_tsv_row() + "\n")
WriteRow(file, row) == File(Append(file.lines, to_tsv_row(row)))

\* the write without the written_to_inprogress test
LogAlways(comment_id, row) ==
    /\ inprogress_file' = WriteRow(inprogress_file, row)
    /\ written_to_inprogress' = written_to_inprogress \cup {comment_id}

\* "if comment_id not in written_to_inprogress: write, flush, add"
LogOnce(comment_id, row) ==
    IF comment_id \notin written_to_inprogress
    THEN /\ inprogress_file' = WriteRow(inprogress_file, row)
         /\ written_to_inprogress' = written_to_inprogress \cup {comment_id}
    ELSE UNCHANGED <<inprogress_file, written_to_inprogress>>

Decide(comment_id, class, result) ==
    decisions' = Append(decisions, [id |-> comment_id, class |-> class, result |-> result])

InLoop == pc = "loop" /\ idx <= Len(comments)

\* the test of lines 424-425 without strip(): only "" is blank
IsBlankNoStrip(body) == ~body.isstr \/ body.text = ""

IsBlank(body) == ~body.isstr \/ Strip(body.text) = ""

\* the sentinel test with "[deleted]" left out
IsRetractedRemovedOnly(body) == body.text \in {"[removed]"}

IsRetracted(body) == body.text \in {"[deleted]", "[removed]"}

\* the positive record is looked up first: the skipped cache only counts for an
\* id without a stored row
IsCachedNegativeAfterLookup(comment_id, body) ==
    /\ ~Has(existing_data, comment_id)
    /\ Has(skipped_cache, comment_id)
    /\ Get(skipped_cache, comment_id) = compute_body_hash(body)

\* the skipped cache is not consulted
IsCachedNegativeNotConsulted(comment_id, body) == FALSE

IsCachedNegative(comment_id, body) ==
    Has(skipped_cache, comment_id) /\ Get(skipped_cache, comment_id) = compute_body_hash(body)

IsUnchanged(comment_id, body) ==
    Has(existing_data, comment_id)
    /\ Get(existing_data, comment_id).body_hash = compute_body_hash(body)

Memory == <<existing_data, skipped_cache, written_to_inprogress, final_data, out_queue>>
Disk == <<output_tsv, skipped_file, inprogress_file>>
History == <<prior_data, prior_skipped, prior_output, rerun, ever_known>>
Pure == <<fn_in, fn_out>>

\* lines 348-416: load the feed, the snapshot and the skipped cache, open the log
StartRunOn(feeds) ==
    /\ pc \in {"idle", "done"}
    /\ runs < MaxRuns
    /\ runs' = runs + 1
    /\ idx' = 1
    /\ existing_data' = read_existing_data(output_tsv)
    /\ skipped_cache' = load_skipped_cache(skipped_file)
    /\ inprogress_file' = File(<<TSV_HEADER>>)
    /\ written_to_inprogress' = {}
    /\ final_data' = <<>>
    /\ out_queue' = <<>>
    /\ decisions' = <<>>
    /\ prior_data' = existing_data'
    /\ prior_skipped' = skipped_cache'
    /\ prior_output' = output_tsv
    /\ pc' = "loop"
    /\ \E feed \in feeds :
          /\ items + Len(feed) <= MaxItems
          /\ items' = items + Len(feed)
          /\ comments' = feed
          /\ rerun' = (pc = "done" /\ feed = comments)
    /\ UNCHANGED <<output_tsv, skipped_file, ever_known, Pure>>

StartRun == StartRunOn(Feeds)

\* lines 424-425: a body that is no string or is blank
SkipBlank ==
    /\ InLoop
    /\ LET c == comments[idx]
           comment_id == CommentId(c, idx)
       IN /\ IsBlank(c.body)
          /\ Decide(comment_id, "Blank", "none")
    /\ idx' = idx + 1
    /\ UNCHANGED <<pc, runs, items, comments, Memory, Disk, History, Pure>>

\* lines 427-434: deleted/removed, the stored row goes to the log as it is
Retracted ==
    /\ InLoop
    /\ LET c == comments[idx]
           comment_id == CommentId(c, idx)
       IN /\ ~IsBlank(c.body)
          /\ IsRetracted(c.body)
          /\ IF Has(existing_data, comment_id)
             THEN LogOnce(comment_id, Get(existing_data, comment_id))
             ELSE UNCHANGED <<inprogress_file, written_to_inprogress>>
          /\ Decide(comment_id, "Retracted", "none")
    /\ idx' = idx + 1
    /\ UNCHANGED <<pc, runs, items, comments, existing_data, skipped_cache, final_data, out_queue,
                   output_tsv, skipped_file, History, Pure>>

\* lines 436-442: known non-timeline with the same hash
CachedNegative ==
    /\ InLoop
    /\ LET c == comments[idx]
           comment_id == CommentId(c, idx)
       IN /\ ~IsBlank(c.body)
          /\ ~IsRetracted(c.body)
          /\ IsCachedNegative(comment_id, c.body)
          /\ Decide(comment_id, "CachedNegative", "none")
    /\ idx' = idx + 1
    /\ UNCHANGED <<pc, runs, items, comments, Memory, Disk, History, Pure>>

\* lines 454-465: stored row with the same hash, copied to the log
Unchanged ==
    /\ InLoop
    /\ LET c == comments[idx]
           comment_id == CommentId(c, idx)
       IN /\ ~IsBlank(c.body)
          /\ ~IsRetracted(c.body)
          /\ ~IsCachedNegative(comment_id, c.body)
          /\ IsUnchanged(comment_id, c.body)
          /\ LogOnce(comment_id, Get(existing_data, comment_id))
          /\ Decide(comment_id, "Unchanged", "none")
    /\ idx' = idx + 1
    /\ UNCHANGED <<pc, runs, items, comments, existing_data, skipped_cache, final_data, out_queue,
                   output_tsv, skipped_file, History, Pure>>

\* the state of a process that is not running
Stopped ==
    /\ pc' = "idle"
    /\ comments' = <<>>
    /\ idx' = 1
    /\ existing_data' = <<>>
    /\ skipped_cache' = <<>>
    /\ written_to_inprogress' = {}
    /\ final_data' = <<>>
    /\ out_queue' = <<>>
    /\ decisions' = <<>>
    /\ prior_data' = <<>>
    /\ prior_skipped' = <<>>
    /\ rerun' = FALSE

\* lines 448-453 and 467-501: a new or edited comment goes to the gateway
Process(response) ==
    /\ InLoop
    /\ LET c == comments[idx]
           body == c.body
           comment_id == CommentId(c, idx)
           body_hash == compute_body_hash(body)
           had_row == Has(existing_data, comment_id)
           class == IF had_row THEN "Edited" ELSE "New"
           new_row == process_comment(comment_id, body, response)
       IN /\ ~IsBlank(body)
          /\ ~IsRetracted(body)
          /\ ~IsCachedNegative(comment_id, body)
          /\ ~IsUnchanged(comment_id, body)
          /\ IF new_row = ResultRaise
             THEN \* the exception leaves main(): the finally clause closes the log
                  /\ Stopped
                  /\ UNCHANGED <<runs, items, Disk, prior_output, ever_known, Pure>>
             ELSE /\ IF new_row = ResultNone
                     THEN /\ skipped_cache' = Put(skipped_cache, comment_id, body_hash)
                          /\ existing_data' = IF had_row THEN Del(existing_data, comment_id)
                                              ELSE existing_data
                          /\ UNCHANGED <<inprogress_file, written_to_inprogress>>
                          /\ Decide(comment_id, class,
                                    IF response.kind = "error" THEN "error" ELSE "skip")
                     ELSE LET row == IF had_row
                                     THEN merge_with(Get(existing_data, comment_id), new_row.row)
                                     ELSE new_row.row
                          IN /\ existing_data' = Put(existing_data, comment_id, row)
                             /\ LogOnce(comment_id, row)
                             /\ Decide(comment_id, class, "row")
                             /\ UNCHANGED skipped_cache
                  /\ idx' = idx + 1
                  /\ UNCHANGED <<pc, runs, items, comments, final_data, out_queue, output_tsv,
                                 skipped_file, History, Pure>>

\* the trailing loop left out: no stored row is carried over
NoRemainingLines(data, written) == <<>>

\* the rows of existing_data that are not in the log yet, in dict order
RECURSIVE RemainingLines(_, _)
RemainingLines(data, written) ==
    IF Len(data) = 0 THEN <<>>
    ELSE (IF data[1].key \notin written THEN <<to_tsv_row(data[1].val)>> ELSE <<>>)
         \o RemainingLines(Tail(data), written \cup {data[1].key})

\* lines 503-511: rows of earlier runs that the feed did not touch, then close the log
WriteRemaining ==
    /\ pc = "loop"
    /\ idx > Len(comments)
    /\ inprogress_file' =
           File(inprogress_file.lines \o RemainingLines(existing_data, written_to_inprogress))
    /\ written_to_inprogress' = written_to_inprogress \cup Keys(existing_data)
    /\ pc' = "save_skipped"
    /\ UNCHANGED <<runs, items, comments, idx, existing_data, skipped_cache, final_data, out_queue,
                   output_tsv, skipped_file, decisions, History, Pure>>

\* lines 517-523
WriteSkippedCache ==
    /\ pc = "save_skipped"
    /\ LET keys == Sorted(Keys(skipped_cache))
       IN skipped_file' =
              File([i \in 1..Len(keys) |-> keys[i] \o TAB \o Get(skipped_cache, keys[i])])
    /\ pc' = "read_log"
    /\ UNCHANGED <<runs, items, comments, idx, Memory, output_tsv, inprogress_file, decisions,
                   History, Pure>>

\* lines 526-536
ReadInprogress ==
    /\ pc = "read_log"
    /\ final_data' = RowsInto(<<>>, AfterHeader(inprogress_file.lines))
    /\ pc' = "open_output"
    /\ UNCHANGED <<runs, items, comments, idx, existing_data, skipped_cache, written_to_inprogress,
                   out_queue, Disk, decisions, History, Pure>>

\* the final output written in dict order, without sorted()
OutputLinesUnsorted(data) ==
    <<TSV_HEADER>> \o [i \in 1..Len(data) |-> to_tsv_row(data[i].val)]

\* the lines of the final output: the header, then the rows sorted by comment id
OutputLines(data) ==
    LET keys == Sorted(Keys(data))
    IN <<TSV_HEADER>> \o [i \in 1..Len(keys) |-> to_tsv_row(Get(data, keys[i]))]

\* line 539: open(args.output_tsv, "w") truncates the snapshot
OpenOutput ==
    /\ pc = "open_output"
    /\ output_tsv' = File(<<>>)
    /\ out_queue' = OutputLines(final_data)
    /\ pc' = "write_output"
    /\ UNCHANGED <<runs, items, comments, idx, existing_data, skipped_cache, written_to_inprogress,
                   final_data, skipped_file, inprogress_file, decisions, History, Pure>>

\* lines 540-542: one line reaches the file
WriteOutputLine ==
    /\ pc = "write_output"
    /\ out_queue # <<>>
    /\ output_tsv' = File(Append(output_tsv.lines, Head(out_queue)))
    /\ out_queue' = Tail(out_queue)
    /\ UNCHANGED <<pc, runs, items, comments, idx, existing_data, skipped_cache,
                   written_to_inprogress, final_data, skipped_file, inprogress_file,
                   decisions, History, Pure>>

\* the <<id, date field>> pairs that hold a real date in a dict of rows
KnownIn(data) ==
    {<<id, f>> \in Keys(data) \X DateFields : IsRealDate(Get(data, id)[f])}

\* lines 544-546: the output is closed, the log removed
RemoveInprogress ==
    /\ pc = "write_output"
    /\ out_queue = <<>>
    /\ inprogress_file' = NoFile
    /\ ever_known' = ever_known \cup KnownIn(final_data)
    /\ pc' = "done"
    /\ UNCHANGED <<runs, items, comments, idx, Memory, output_tsv, skipped_file, decisions,
                   prior_data, prior_skipped, prior_output, rerun, Pure>>

\* the process is killed, or finalization fails and exits (lines 548-551): the
\* files stay as they are; a killed run is followed no further
Crash ==
    /\ pc \in {"save_skipped", "read_log", "open_output", "write_output"}
    /\ pc' = "crashed"
    /\ UNCHANGED <<runs, items, comments, idx, Memory, Disk, decisions, History, Pure>>

Init ==
    /\ pc = "idle"
    /\ runs = 0
    /\ items = 0
    /\ comments = <<>>
    /\ idx = 1
    /\ output_tsv = NoFile
    /\ skipped_file = NoFile
    /\ inprogress_file = NoFile
    /\ existing_data = <<>>
    /\ skipped_cache = <<>>
    /\ written_to_inprogress = {}
    /\ final_data = <<>>
    /\ out_queue = <<>>
    /\ decisions = <<>>
    /\ prior_data = <<>>
    /\ prior_skipped = <<>>
    /\ prior_output = NoFile
    /\ rerun = FALSE
    /\ ever_known = {}
    /\ fn_in = <<>>
    /\ fn_out = <<>>

Next ==
    \/ StartRun
    \/ SkipBlank
    \/ Retracted
    \/ CachedNegative
    \/ Unchanged
    \/ \E response \in Responses : Process(response)
    \/ WriteRemaining
    \/ WriteSkippedCache
    \/ ReadInprogress
    \/ OpenOutput
    \/ WriteOutputLine
    \/ RemoveInprogress
    \/ Crash

Spec == Init /\ [][Next]_vars

(***************************************************************************)
(* The first run may find a snapshot that was not written by this program  *)
(* (edited by hand, or merged by another tool): rows out of order, an id   *)
(* on two lines.                                                           *)
(***************************************************************************)
EditedSnapshot ==
    File(<<TSV_HEADER,
           to_tsv_row(TimelineRow("c2", "ILR", "Online", "2025-02-01", NA, NA, NA,
                                  compute_body_hash(Body("A")))),
           to_tsv_row(TimelineRow("c1", "MN1", "Paper", NA, "2025-02-10", NA, NA,
                                  compute_body_hash(Body("A")))),
           to_tsv_row(TimelineRow("c2", "EUSS", "Other", NA, NA, NA, NA,
                                  compute_body_hash(Body("B"))))>>)

InitPrior ==
    /\ pc = "idle"
    /\ runs = 0
    /\ items = 0
    /\ comments = <<>>
    /\ idx = 1
    /\ output_tsv \in {NoFile, EditedSnapshot}
    /\ skipped_file = NoFile
    /\ inprogress_file = NoFile
    /\ existing_data = <<>>
    /\ skipped_cache = <<>>
    /\ written_to_inprogress = {}
    /\ final_data = <<>>
    /\ out_queue = <<>>
    /\ decisions = <<>>
    /\ prior_data = <<>>
    /\ prior_skipped = <<>>
    /\ prior_output = output_tsv
    /\ rerun = FALSE
    /\ ever_known = {}
    /\ fn_in = <<>>
    /\ fn_out = <<>>

SpecPrior == InitPrior /\ [][Next]_vars

(***************************************************************************)
(* The program on feeds that also hold the other bodies lines 424-425 pass *)
(* over: the empty string and a body that is no string (JSON null).        *)
(***************************************************************************)
BlankBodies == {Body(""), Body(" "), NullBody}

BlankItems == [comment_id : Ids, body : Bodies \cup BlankBodies]

BlankFeeds == UNION {[1..n -> BlankItems] : n \in 0..MaxFeed}

StartRunBlank == StartRunOn(BlankFeeds)

NextBlank ==
    \/ StartRunBlank
    \/ SkipBlank
    \/ Retracted
    \/ CachedNegative
    \/ Unchanged
    \/ \E response \in Responses : Process(response)
    \/ WriteRemaining
    \/ WriteSkippedCache
    \/ ReadInprogress
    \/ OpenOutput
    \/ WriteOutputLine
    \/ RemoveInprogress
    \/ Crash

SpecBlank == Init /\ [][NextBlank]_vars

(***************************************************************************)
(* TimelineRow.merge_with as a function: the two rows are drawn from       *)
(* bounded sets, the action applies it.                                    *)
(***************************************************************************)
OldDateValues == {NA, "", "2025-02-01", "2025-02-10"}

NewDateValues == {NA, "2025-02-01", "2025-03-05"}

OldRows ==
    {TimelineRow("c1", "ILR", "Online", a, b, c, d, compute_body_hash(Body("A"))) :
        <<a, b, c, d>> \in OldDateValues \X OldDateValues \X OldDateValues \X OldDateValues}

NewRows ==
    {TimelineRow("c1", "EUSS (+ Marriage)", "Paper", a, b, c, d, compute_body_hash(Body("B"))) :
        <<a, b, c, d>> \in NewDateValues \X NewDateValues \X NewDateValues \X NewDateValues}

\* stored rows as from_tsv_row can return them, and freshly extracted rows, that
\* differ in id, eligibility, method and hash
OldCategoricalRows ==
    {TimelineRow(id, e, m, "2025-02-01", NA, NA, NA, h) :
        <<id, e, m, h>> \in Ids \X {"ILR", "MN1 (+ Marriage)", ""} \X {"Online", "Other"}
                           \X {compute_body_hash(Body("A")), compute_body_hash(Body("B")), ""}}

NewCategoricalRows ==
    {TimelineRow(id, e, m, NA, "2025-02-10", NA, NA, h) :
        <<id, e, m, h>> \in Ids \X {"ILR", "EUSS"} \X {"Online", "Paper"}
                           \X {compute_body_hash(Body("A")), compute_body_hash(Body("B"))}}

InitFiles ==
    /\ pc = "idle"
    /\ runs = 0
    /\ items = 0
    /\ comments = <<>>
    /\ idx = 1
    /\ output_tsv = NoFile
    /\ skipped_file = NoFile
    /\ inprogress_file = NoFile
    /\ existing_data = <<>>
    /\ skipped_cache = <<>>
    /\ written_to_inprogress = {}
    /\ final_data = <<>>
    /\ out_queue = <<>>
    /\ decisions = <<>>
    /\ prior_data = <<>>
    /\ prior_skipped = <<>>
    /\ prior_output = NoFile
    /\ rerun = FALSE
    /\ ever_known = {}

InitMerge ==
    /\ InitFiles
    /\ fn_in \in (OldRows \X NewRows) \cup (OldCategoricalRows \X NewCategoricalRows)
    /\ fn_out = <<>>

ApplyMerge ==
    /\ fn_out = <<>>
    /\ fn_out' = <<merge_with(fn_in[1], fn_in[2])>>
    /\ UNCHANGED <<pc, runs, items, comments, idx, Memory, Disk, decisions, History, fn_in>>

NextMerge == ApplyMerge

SpecMerge == InitMerge /\ [][NextMerge]_vars

(***************************************************************************)
(* A chain of two merges of one id, as main applies merge_with pass after  *)
(* pass: three rows a, b, c in chronological order are drawn from bounded  *)
(* sets, the action computes both groupings of the chain.                  *)
(***************************************************************************)
ChainDateValues == {NA, "", "2025-02-01", "2025-02-10", "2025-03-05"}

ChainRows(eligibility, method, body) ==
    {TimelineRow("c1", eligibility, method, a, NA, " ", d, compute_body_hash(body)) :
        <<a, d>> \in ChainDateValues \X ChainDateValues}

InitChain ==
    /\ InitFiles
    /\ fn_in \in ChainRows("ILR", "Online", Body("A"))
                  \X ChainRows("MN1", "Paper", Body("B"))
                  \X ChainRows("EUSS (+ Marriage)", "Other", Body("C"))
    /\ fn_out = <<>>

ApplyChain ==
    /\ fn_out = <<>>
    /\ fn_out' = <<merge_with(merge_with(fn_in[1], fn_in[2]), fn_in[3]),
                   merge_with(fn_in[1], merge_with(fn_in[2], fn_in[3]))>>
    /\ UNCHANGED <<pc, runs, items, comments, idx, Memory, Disk, decisions, History, fn_in>>

NextChain == ApplyChain

SpecChain == InitChain /\ [][NextChain]_vars

(***************************************************************************)
(* The normalisation of a gateway candidate as a function: the candidate's *)
(* eligibility and method are drawn from bounded sets (Missing: the key is *)
(* not in the object), process_comment is applied, and the eligibility of  *)
(* the row is normalised once more.                                        *)
(***************************************************************************)
Missing == [t |-> "missing"]

EligibilityInputs ==
    { Missing, JNull, JStr(""), JStr("  "), JStr("ILR"), JStr("ilr (+ marriage)"),
      JStr("EU settled status, married to British"), JStr("EUSS"), JStr("MN1 (Child)"),
      JStr("Form T"), JStr("form t spouse of a british"), JStr("Armed Forces"),
      JStr(" bno "), JStr("ILR (+ DV)"), JStr("ILR (+ Refugee)"),
      JStr("ILR (+ Marriage) (+ DV)"), JStr("Tier 2 then ILR, partner on EUSS"),
      JStr("bno armed mn1"), JStr("naturalisation"), JStr("Refugee") }

MethodInputs ==
    { Missing, JNull, JTrue, JStr(""), JStr("Online"), JStr("paper"), JStr(" OTHER "),
      JStr("pApEr"), JStr("Post"), JStr("online via solicitor") }

\* the JSON object with these values; a Missing one has no key
CandidateObject(eligibility, method) ==
    LET keys == {"application_date"}
                \cup (IF eligibility = Missing THEN {} ELSE {"eligibility"})
                \cup (IF method = Missing THEN {} ELSE {"application_method"})
    IN RespObject([k \in keys |->
           CASE k = "eligibility" -> eligibility
             [] k = "application_method" -> method
             [] OTHER -> JStr("2025-02-01")])

InitNormalise ==
    /\ InitFiles
    /\ fn_in \in EligibilityInputs \X MethodInputs
    /\ fn_out = <<>>

\* process_comment on the candidate
ApplyProcessComment ==
    /\ fn_out = <<>>
    /\ fn_out' = <<process_comment("c1", Body("A"), CandidateObject(fn_in[1], fn_in[2])).row>>
    /\ UNCHANGED <<pc, runs, items, comments, idx, Memory, Disk, decisions, History, fn_in>>

\* the eligibility of the row goes through sanity_normalise_eligibility again
Recanonicalize ==
    /\ Len(fn_out) = 1
    /\ fn_out' = Append(fn_out, sanity_normalise_eligibility(JStr(fn_out[1].eligibility)))
    /\ UNCHANGED <<pc, runs, items, comments, idx, Memory, Disk, decisions, History, fn_in>>

NextNormalise == ApplyProcessComment \/ Recanonicalize

SpecNormalise == InitNormalise /\ [][NextNormalise]_vars

(***************************************************************************)
(* process_comment as a function of the comment body and of the label the  *)
(* gateway proposes for it.                                                *)
(***************************************************************************)
ContentInputs == {Body("A"), Body("EUSS approved"), Body("settled status, then MN1")}

InitContent ==
    /\ InitFiles
    /\ fn_in \in EligibilityInputs \X ContentInputs
    /\ fn_out = <<>>

\* process_comment on the body and the candidate with the proposed label
ApplyToContent ==
    /\ fn_out = <<>>
    /\ fn_out' = <<process_comment("c1", fn_in[2], CandidateObject(fn_in[1], Missing)).row>>
    /\ UNCHANGED <<pc, runs, items, comments, idx, Memory, Disk, decisions, History, fn_in>>

NextContent == ApplyToContent

SpecContent == InitContent /\ [][NextContent]_vars

(***************************************************************************)
(* What the files hold, and what a finished pass did.                      *)
(***************************************************************************)
\* the positive snapshot as the next run reads it
Snapshot == read_existing_data(output_tsv)

\* the negative cache as the next run reads it
NegativeCache == load_skipped_cache(skipped_file)

\* a pass that ran to its end: decisions[i] is the decision on comments[i]
Completed == pc = "done"

FeedIds == {CommentId(comments[i], i) : i \in 1..Len(comments)}

Fingerprint(i) == compute_body_hash(comments[i].body)

GatewayCalled(i) == decisions[i].result # "none"

OccursOnce(i) == \A j \in 1..Len(decisions) : decisions[j].id = decisions[i].id => j = i

SentinelContent(i) == comments[i].body.text \in {"[deleted]", "[removed]"}

SameRecord(id) ==
    Has(prior_data, id) => Has(Snapshot, id) /\ Get(Snapshot, id) = Get(prior_data, id)

KnownDate(d) == d # NA /\ d # ""

(***************************************************************************)
(* Properties.                                                             *)
(***************************************************************************)
\* C1: after a pass, every entry <<id, fingerprint>> of the negative cache that
\* was not there before the pass comes from an item of the pass with that id
\* and that fingerprint for which the gateway returned the not-a-timeline
\* signal; a failed gateway call adds no entry.
C1_NegativeOnlyOnExplicitSignal ==
    Completed =>
        \A id \in Keys(NegativeCache) :
            (~Has(prior_skipped, id) \/ Get(prior_skipped, id) # Get(NegativeCache, id)) =>
                \E i \in 1..Len(decisions) :
                    /\ decisions[i].id = id
                    /\ decisions[i].result = "skip"
                    /\ Fingerprint(i) = Get(NegativeCache, id)

\* C2: after a pass in which the gateway call failed for an Edited item, the
\* record its id had in the prior snapshot is in the new snapshot, unmodified.
C2_FailedEditKeepsRecord ==
    Completed =>
        \A i \in 1..Len(decisions) :
            (decisions[i].class = "Edited" /\ decisions[i].result = "error"
             /\ Has(prior_data, decisions[i].id) /\ OccursOnce(i)) =>
                /\ Has(Snapshot, decisions[i].id)
                /\ Get(Snapshot, decisions[i].id) = Get(prior_data, decisions[i].id)

\* C3: after a pass, the id of an item whose fingerprint equals the negative
\* fingerprint stored for that id is not in the positive snapshot.
C3_CachedNegativeAbsent ==
    Completed =>
        \A i \in 1..Len(decisions) :
            (decisions[i].class = "CachedNegative" /\ OccursOnce(i)
             /\ Has(NegativeCache, decisions[i].id)
             /\ Get(NegativeCache, decisions[i].id) = Fingerprint(i)) =>
                ~Has(Snapshot, decisions[i].id)

\* C4: at every instant the snapshot file is the complete prior snapshot or
\* the complete new id-sorted snapshot.
C4_SnapshotOldOrNew ==
    \/ output_tsv = prior_output
    \/ output_tsv = File(OutputLines(final_data))

\* C5: a pass over the feed of the pass before it leaves the snapshot as it
\* was and calls the gateway for no item.
C5_SecondPassIdempotent ==
    (Completed /\ rerun) =>
        /\ output_tsv = prior_output
        /\ \A i \in 1..Len(decisions) : ~GatewayCalled(i)

\* C6: for each date field D of merge_with(old, new): old.D known gives old.D;
\* old.D unknown and new.D known gives new.D; both unknown gives "N/A".
C6_StickyDates ==
    fn_out # <<>> =>
        \A f \in DateFields :
            LET o == fn_in[1][f]
                n == fn_in[2][f]
                m == fn_out[1][f]
            IN /\ KnownDate(o) => m = o
               /\ (~KnownDate(o) /\ KnownDate(n)) => m = n
               /\ (~KnownDate(o) /\ ~KnownDate(n)) => m = NA

\* C6 witness: one merge in which a known date meets a different known date,
\* an unknown date meets a known one, and two unknown dates meet.
C6_Witness ==
    /\ fn_out # <<>>
    /\ \E f \in DateFields :
          KnownDate(fn_in[1][f]) /\ KnownDate(fn_in[2][f]) /\ fn_in[1][f] # fn_in[2][f]
    /\ \E f \in DateFields : ~KnownDate(fn_in[1][f]) /\ KnownDate(fn_in[2][f])
    /\ \E f \in DateFields : ~KnownDate(fn_in[1][f]) /\ ~KnownDate(fn_in[2][f])

\* C7: a date field that held a known value in a snapshot is not "N/A" in a
\* later snapshot that has the id.
C7_KnownNeverUnknown ==
    Completed =>
        \A e \in ever_known :
            Has(Snapshot, e[1]) => Get(Snapshot, e[1])[e[2]] # NA

C9_UnseenIdRetained ==
    Completed =>
        \A id \in Keys(prior_data) \ FeedIds :
            Has(Snapshot, id) /\ Get(Snapshot, id) = Get(prior_data, id)

\* C9 witness: a finished pass over a feed that wrote a record for one id
\* while another id of the prior snapshot was not in the feed.
C9_Witness ==
    /\ Completed
    /\ Keys(prior_data) \ FeedIds # {}
    /\ \E i \in 1..Len(decisions) : decisions[i].result = "row"

\* the step is a gateway call: it records a gateway result for the item at
\* idx, or the non-object response ends the process
GatewayStep ==
    /\ InLoop
    /\ \/ /\ Len(decisions') = Len(decisions) + 1
          /\ decisions'[Len(decisions')].result # "none"
       \/ pc' = "idle"

\* C10: every step that calls the gateway is for an item that is not blank,
\* not retracted, whose fingerprint is not the negative fingerprint stored for
\* its id and is not the fingerprint of the record stored for its id.
C10_GatewayOnlyNewOrEdited ==
    [][GatewayStep =>
         LET c == comments[idx]
             id == CommentId(c, idx)
             h == compute_body_hash(c.body)
         IN /\ c.body.text \notin {"[deleted]", "[removed]"}
            /\ ~(Has(skipped_cache, id) /\ Get(skipped_cache, id) = h)
            /\ ~(Has(existing_data, id) /\ Get(existing_data, id).body_hash = h)]_vars

\* C10 witness: a finished pass with a gateway call and with an item carried
\* over without one.
C10_Witness ==
    /\ Completed
    /\ \E i \in 1..Len(decisions) : GatewayCalled(i)
    /\ \E i \in 1..Len(decisions) : decisions[i].class = "Unchanged"
    /\ prior_skipped # <<>>

\* C11: after a pass in which the gateway returned the not-a-timeline signal
\* for an Edited item (and no later item of that id went to the gateway), the
\* id has no record in the new snapshot and the negative cache maps the id to
\* the fingerprint of the item's content.
C11_SkippedEditRemoved ==
    Completed =>
        \A i \in 1..Len(decisions) :
            (decisions[i].class = "Edited" /\ decisions[i].result = "skip"
             /\ \A j \in (i + 1)..Len(decisions) :
                    decisions[j].id = decisions[i].id => ~GatewayCalled(j)) =>
                /\ ~Has(Snapshot, decisions[i].id)
                /\ Has(NegativeCache, decisions[i].id)
                /\ Get(NegativeCache, decisions[i].id) = Fingerprint(i)

\* C12: merge_with(old, new) has the eligibility, the method and the body hash
\* of new and the comment id of old.
C12_CategoricalFromNew ==
    fn_out # <<>> =>
        /\ fn_out[1].eligibility = fn_in[2].eligibility
        /\ fn_out[1].application_method = fn_in[2].application_method
        /\ fn_out[1].body_hash = fn_in[2].body_hash
        /\ fn_out[1].comment_id = fn_in[1].comment_id

\* C12 witness: a merge of two rows that differ in id, eligibility, method and
\* hash.
C12_Witness ==
    /\ fn_out # <<>>
    /\ fn_in[1].comment_id # fn_in[2].comment_id
    /\ fn_in[1].eligibility # fn_in[2].eligibility
    /\ fn_in[1].application_method # fn_in[2].application_method
    /\ fn_in[1].body_hash # fn_in[2].body_hash

Digits == "0123456789"

DigitChars == CharsOf(Digits)

DigitValue(c) == IndexIn(c, Digits) - 1

TwoDigits(d, i) == 10 * DigitValue(CharAt(d, i)) + DigitValue(CharAt(d, i + 1))

IsLeapYear(y) == (y % 4 = 0 /\ y % 100 # 0) \/ y % 400 = 0

DaysInMonth(y, m) ==
    IF m = 2 THEN (IF IsLeapYear(y) THEN 29 ELSE 28)
    ELSE IF m \in {4, 6, 9, 11} THEN 30 ELSE 31

\* d is a calendar date written YYYY-MM-DD
IsCalendarDate(d) ==
    /\ Len(d) = 10
    /\ CharAt(d, 5) = "-"
    /\ CharAt(d, 8) = "-"
    /\ \A i \in {1, 2, 3, 4, 6, 7, 9, 10} : CharAt(d, i) \in DigitChars
    /\ LET y == 100 * TwoDigits(d, 1) + TwoDigits(d, 3)
           m == TwoDigits(d, 6)
           day == TwoDigits(d, 9)
       IN m \in 1..12 /\ day \in 1..DaysInMonth(y, m)

\* C13: after a pass, every date field of every record of the snapshot is
\* "N/A" or a calendar date written YYYY-MM-DD.
C13_DatesValidOrUnknown ==
    Completed =>
        \A id \in Keys(Snapshot) : \A f \in DateFields :
            Get(Snapshot, id)[f] = NA \/ IsCalendarDate(Get(Snapshot, id)[f])

BaseLabels == {"ILR", "EUSS", "MN1", "Form T", "BNO", "Armed Forces"}

\* the suffix tags in their fixed order, each present or not
SuffixChains ==
    {m \o d \o r : <<m, d, r>> \in {"", " (+ Marriage)"} \X {"", " (+ DV)"} \X {"", " (+ Refugee)"}}

CanonicalForms == {b \o t : <<b, t>> \in BaseLabels \X SuffixChains}

C15_CanonicalizeIdempotent ==
    Len(fn_out) = 2 => fn_out[2] = fn_out[1].eligibility

\* C15 witness: a label that was changed by the first normalisation and then
\* went through the second.
C15_Witness ==
    /\ Len(fn_out) = 2
    /\ fn_in[1] = JStr("EU settled status, married to British")
    /\ fn_out[1].eligibility = "EUSS (+ Marriage)"

\* the method value is one of the three, whatever its case and the blanks
\* around it
RecognisedMethod(v) ==
    v # Missing /\ v.t = "str" /\ Upper(Strip(v.s)) \in {"ONLINE", "PAPER", "OTHER"}

\* C16: the method of every row process_comment makes from a candidate is
\* Online, Paper or Other, and it is Online when the candidate has no method
\* or one that is none of the three.
C16_MethodEnumerated ==
    fn_out # <<>> =>
        /\ fn_out[1].application_method \in {"Online", "Paper", "Other"}
        /\ ~RecognisedMethod(fn_in[2]) => fn_out[1].application_method = "Online"
        /\ RecognisedMethod(fn_in[2]) =>
               Upper(fn_out[1].application_method) = Upper(Strip(fn_in[2].s))

\* C16 witness: a row made from a candidate whose method is none of the three.
C16_Witness ==
    /\ fn_out # <<>>
    /\ fn_in[2] \in {Missing, JStr("Post"), JStr("online via solicitor")}
    /\ fn_out[1].application_method = "Online"

\* the comment ids of the rows of the snapshot file, line by line
SnapshotIds ==
    LET rows == AfterHeader(output_tsv.lines)
    IN [i \in 1..Len(rows) |-> Split(rows[i], TAB)[1]]

\* C17: after a pass the snapshot file is the header followed by rows whose
\* ids are strictly ascending, so that no id is on two rows.
C17_OneRowPerIdSorted ==
    Completed =>
        /\ output_tsv.exists
        /\ Len(output_tsv.lines) >= 1
        /\ output_tsv.lines[1] = TSV_HEADER
        /\ \A i \in 1..Len(SnapshotIds) : \A j \in 1..Len(SnapshotIds) :
               i < j => StrLess(SnapshotIds[i], SnapshotIds[j])

\* C17 witness: a finished pass over a feed with an id on two items, that
\* wrote the row of c2 to the log before the row of c1, with two rows in the
\* snapshot.
C17_Witness ==
    /\ Completed
    /\ Len(SnapshotIds) = 2
    /\ final_data # <<>> /\ final_data[1].key = "c2"
    /\ \E i \in 1..Len(decisions) : \E j \in 1..Len(decisions) :
           /\ i < j
           /\ decisions[i].id = decisions[j].id
           /\ decisions[i].result = "row"
           /\ decisions[j].result = "row"

\* a pass is under way: the log is open or being read back
InPass == pc \in {"loop", "save_skipped", "read_log", "open_output", "write_output"}

\* the rows of the log, parsed
LogRows ==
    LET rows == AfterHeader(inprogress_file.lines)
    IN [i \in 1..Len(rows) |-> from_tsv_row(rows[i])]

\* the item decided as number i has a record as its result: new or merged,
\* unchanged, or retracted with a stored record
ResultIsRecord(i) ==
    \/ decisions[i].result = "row"
    \/ decisions[i].class = "Unchanged"
    \/ (decisions[i].class = "Retracted" /\ OccursOnce(i) /\ Has(prior_data, decisions[i].id))

IsPrefix(s, t) == Len(s) <= Len(t) /\ SubSeq(t, 1, Len(s)) = s

LogConsistent ==
    InPass =>
        LET rows == LogRows
            ids == [k \in 1..Len(rows) |-> IF rows[k] = NoneRow THEN "" ELSE rows[k].comment_id]
        IN /\ inprogress_file.exists
           /\ Len(inprogress_file.lines) >= 1
           /\ inprogress_file.lines[1] = TSV_HEADER
           /\ \A k \in 1..Len(rows) : rows[k] # NoneRow
           /\ \A k \in 1..Len(rows) : \A l \in 1..Len(rows) : ids[k] = ids[l] => k = l
           /\ \A i \in 1..Len(decisions) :
                  ResultIsRecord(i) =>
                      \E k \in 1..Len(rows) :
                          /\ ids[k] = decisions[i].id
                          /\ OccursOnce(i) =>
                                 /\ Has(existing_data, decisions[i].id)
                                 /\ inprogress_file.lines[k + 1] =
                                        to_tsv_row(Get(existing_data, decisions[i].id))

LogAppendOnly ==
    (InPass /\ pc' # "done") => IsPrefix(inprogress_file.lines, inprogress_file'.lines)

DecisionStep == InLoop /\ Len(decisions') = Len(decisions) + 1

\* C19: every step that decides an item gives it the class Retracted when its
\* content is a sentinel, whatever the skipped cache holds for its id, and
\* otherwise the class CachedNegative when its fingerprint is the one the
\* skipped cache holds for its id, whether or not a row is stored for the id;
\* only then is it Unchanged, Edited or New.
C19_ClassificationOrder ==
    [][DecisionStep =>
         LET c == comments[idx]
             id == CommentId(c, idx)
             h == compute_body_hash(c.body)
             class == decisions'[Len(decisions')].class
             blank == ~c.body.isstr \/ Strip(c.body.text) = ""
             sentinel == c.body.text \in {"[deleted]", "[removed]"}
             negative == Has(skipped_cache, id) /\ Get(skipped_cache, id) = h
         IN /\ (~blank /\ sentinel) => class = "Retracted"
            /\ (~blank /\ ~sentinel /\ negative) => class = "CachedNegative"
            /\ (~blank /\ ~sentinel /\ ~negative) => class \in {"Unchanged", "Edited", "New"}
            /\ class = "Unchanged" =>
                   Has(existing_data, id) /\ Get(existing_data, id).body_hash = h
            /\ class = "Edited" =>
                   Has(existing_data, id) /\ Get(existing_data, id).body_hash # h
            /\ class = "New" => ~Has(existing_data, id)]_vars

\* C19 witness: a finished pass in which an item was CachedNegative although
\* a row was stored for its id.
C19_Witness ==
    /\ Completed
    /\ \E i \in 1..Len(decisions) :
           decisions[i].class = "CachedNegative" /\ Has(prior_data, decisions[i].id)

\* C20: after a pass, the record the snapshot holds for the id of a New item
\* that got a positive candidate (the only item of its id in the feed) is the
\* row process_comment makes from one candidate with the item's id and the
\* hash of the item's body.
C20_NewInsertedFresh ==
    Completed =>
        \A i \in 1..Len(decisions) :
            (decisions[i].class = "New" /\ decisions[i].result = "row" /\ OccursOnce(i)) =>
                /\ Has(Snapshot, decisions[i].id)
                /\ \E r \in Candidates :
                       process_comment(decisions[i].id, comments[i].body, r)
                           = ResultRow(Get(Snapshot, decisions[i].id))

(***************************************************************************)
(* C21                                                                     *)
(***************************************************************************)
FirstKnown(a, b, c) ==
    IF IsRealDate(a) THEN a ELSE IF IsRealDate(b) THEN b ELSE IF IsRealDate(c) THEN c ELSE NA

\* C21: for rows a, b, c of one id, merging (a with b) with c gives the same row
\* as merging a with (b with c); each date of the result is the first real
\* date among a, b, c, or N/A, and eligibility, method and hash are those of c.
C21_MergeAssociative ==
    fn_out # <<>> =>
        LET a == fn_in[1]  b == fn_in[2]  c == fn_in[3]  r == fn_out[1] IN
        /\ fn_out[1] = fn_out[2]
        /\ \A f \in DateFields : r[f] = FirstKnown(a[f], b[f], c[f])
        /\ r.comment_id = a.comment_id
        /\ r.eligibility = c.eligibility
        /\ r.application_method = c.application_method
        /\ r.body_hash = c.body_hash

C21_Witness ==
    /\ fn_out # <<>>
    /\ Len(fn_in) = 3
    /\ fn_in[1].application_date = "2025-02-01"
    /\ fn_in[2].application_date = "2025-02-10"
    /\ fn_in[3].application_date = "2025-03-05"
    /\ fn_in[1].ceremony_date = NA
    /\ fn_in[2].ceremony_date = ""
    /\ fn_in[3].ceremony_date = "2025-03-05"
    /\ fn_out[1].application_date = "2025-02-01"
    /\ fn_out[2].ceremony_date = "2025-03-05"

(***************************************************************************)
(* C22                                                                     *)
(***************************************************************************)
SuffixTags == {" (+ Marriage)", " (+ DV)", " (+ Refugee)"}

\* C22: every suffix tag that the candidate's label carries is in the
\* eligibility of the row process_comment makes from the candidate.
C22_SuffixTagsKept ==
    (fn_out # <<>> /\ fn_in[1] \notin {Missing, JNull}) =>
        \A tag \in SuffixTags :
            Contains(fn_in[1].s, tag) => Contains(fn_out[1].eligibility, tag)

(***************************************************************************)
(* C23                                                                     *)
(***************************************************************************)
\* the text names the settlement scheme (the keywords of the EUSS test)
MentionsScheme(text) ==
    LET upper == Upper(text) IN
    Contains(upper, "EUSS") \/ Contains(upper, "SETTLED STATUS") \/ Contains(upper, "EU SETTLED")

ProposedLabel(v) == IF v \in {Missing, JNull} THEN "" ELSE v.s

BaseOf(eligibility) ==
    CHOOSE b \in BaseLabels : Len(b) <= Len(eligibility) /\ SubSeq(eligibility, 1, Len(b)) = b

\* C23: when the proposed label or the comment body names the settlement
\* scheme, the eligibility of the row starts with the base label EUSS.
C23_SchemeNeverDefault ==
    (fn_out # <<>> /\ (MentionsScheme(ProposedLabel(fn_in[1])) \/ MentionsScheme(fn_in[2].text))) =>
        BaseOf(fn_out[1].eligibility) = "EUSS"

(***************************************************************************)
(* C24                                                                     *)
(***************************************************************************)
\* C24: every step taken on an item of the feed, a gateway call that fails or
\* whose response is no JSON object included, leaves the pass in the item
\* loop at the next item of the same feed.
C24_GatewayFailureNotFatal ==
    [][InLoop => (pc' = "loop" /\ idx' = idx + 1 /\ comments' = comments)]_vars

(***************************************************************************)
(* C25                                                                     *)
(***************************************************************************)
\* C25: after a completed pass no id has both a row in the snapshot and an
\* entry in the negative cache.
C25_PositiveNegativeDisjoint ==
    Completed => Keys(Snapshot) \cap Keys(NegativeCache) = {}

(***************************************************************************)
(* C26                                                                     *)
(***************************************************************************)
\* no date of the row holds a tab, so that the row is read back as written
ReadsBackAsWritten(row) == \A f \in DateFields : ~Contains(row[f], TAB)

\* C26: after a completed pass whose rows are read back as written, the
\* snapshot has the ids of existing_data and, for each id, the row of
\* existing_data.
C26_SnapshotEqualsWorkingSet ==
    (Completed /\ \A id \in Keys(existing_data) : ReadsBackAsWritten(Get(existing_data, id))) =>
        /\ Keys(Snapshot) = Keys(existing_data)
        /\ \A id \in Keys(existing_data) : Get(Snapshot, id) = Get(existing_data, id)

(***************************************************************************)
(* C27                                                                     *)
(***************************************************************************)
\* the body is no string, or has no character that is not whitespace
EmptyOrBlank(body) ==
    ~body.isstr \/ \A k \in 1..Len(body.text) : CharAt(body.text, k) \in Whitespace

BlankContent(i) == EmptyOrBlank(comments[i].body)

\* no other item of the feed with the id of item i went to the gateway
NoOtherGatewayCall(i) ==
    \A j \in 1..Len(decisions) : (j # i /\ decisions[j].id = decisions[i].id) => ~GatewayCalled(j)

SameNegative(id) ==
    /\ Has(NegativeCache, id) <=> Has(prior_skipped, id)
    /\ Has(prior_skipped, id) => Get(NegativeCache, id) = Get(prior_skipped, id)

\* C27 as stated: after a pass, every item with an empty, blank or non-string
\* body caused no gateway call, and the record its id had in the prior
\* snapshot is in the new snapshot, field for field.
C27_BlankKeepsRecord ==
    Completed =>
        \A i \in 1..Len(decisions) :
            BlankContent(i) => ~GatewayCalled(i) /\ SameRecord(decisions[i].id)

\* the step the loop takes on an item with such a body
BlankStep ==
    (InLoop /\ EmptyOrBlank(comments[idx].body)) =>
        /\ UNCHANGED <<existing_data, skipped_cache, Disk>>
        /\ Len(decisions') = Len(decisions) + 1
        /\ decisions'[Len(decisions')].result = "none"

BlankFrame ==
    Completed =>
        \A i \in 1..Len(decisions) :
            (BlankContent(i) /\ NoOtherGatewayCall(i)) =>
                /\ ~GatewayCalled(i)
                /\ SameRecord(decisions[i].id)
                /\ SameNegative(decisions[i].id)

\* C27 amended: the step on such an item calls no gateway and changes neither
\* existing_data nor skipped_cache nor a file; and when no other item of the
\* feed with its id went to the gateway in the pass, the record and the
\* negative-cache entry its id had before the pass are the same after it.
C27_BlankKeepsRecordAlone == []BlankFrame /\ [][BlankStep]_vars

\* C27 witness: a finished pass that also called the gateway and in which a
\* non-string item and an empty or whitespace-only item were passed over, one
\* of them with a record in the prior snapshot.
C27_Witness ==
    /\ Completed
    /\ \E i \in 1..Len(decisions) :
          /\ ~comments[i].body.isstr
          /\ Has(prior_data, decisions[i].id)
          /\ NoOtherGatewayCall(i)
    /\ \E j \in 1..Len(decisions) : GatewayCalled(j)

====
